---- MODULE Spec2Model ----
(***************************************************************************)
(* InventorySyncService (src/unnamed/part_008): an in-process registry of  *)
(* warehouses, each holding per-product inventory records, with versioned  *)
(* updates applied at an origin warehouse and propagated to every other    *)
(* active warehouse, last-write-wins conflict handling, and read-only      *)
(* aggregation.                                                             *)
(*                                                                          *)
(* The service runs on a single JavaScript thread.  Every async method     *)
(* runs synchronously up to its first await; the code after an await is a  *)
(* microtask, and microtasks run in FIFO order.  The model keeps that      *)
(* queue (mq) explicitly: one action runs the synchronous part of an API   *)
(* call, one action runs the microtask at the head of the queue.  Callers  *)
(* run as tasks: a new call is issued when no microtask is pending, or     *)
(* back to back with the caller's previous calls.                          *)
(***************************************************************************)
EXTENDS Integers, Sequences, FiniteSets, TLC

VARIABLES
    warehouses,   \* this.warehouses: id -> warehouse object
    order,        \* insertion order of this.warehouses (Map iteration order)
    syncQueue,    \* this.syncQueue: the ids of the updates created, in creation order
    conflicts,    \* this.conflicts: the conflict log
    events,       \* events emitted so far (inventory:updated / inventory:conflict)
    calls,        \* one frame per updateInventory invocation that created an update:
                  \* its update and promises while it runs, its outcome afterwards
    mq,           \* microtask queue: continuations waiting after an await
    now,          \* Date.now()
    lastCall,     \* the step just taken: the API invoked and what it signalled at once
    caller        \* a scripted caller: the calls it makes one after the other, and
                  \* how many it has made (no script when callers are arbitrary)

vars == <<warehouses, order, syncQueue, conflicts, events, calls, mq, now, lastCall,
          caller>>

----------------------------------------------------------------------------
\* Bounds of the model.
MaxCalls == 3      \* updates created in one behaviour
MaxTime == 2       \* clock values 1..MaxTime
MaxItems == 1      \* length of the inventoryData list given to syncFromExternalSystem
MaxInFlight == 2   \* updateInventory calls running at the same time

\* Inputs of the API calls.  Warehouse ids are opaque to the code (only the
\* insertion order of the registry matters), so new ids are registered in
\* the order of WarehouseOrder.
WarehouseOrder == <<"A", "B", "C">>
WarehouseIds == {WarehouseOrder[i] : i \in DOMAIN WarehouseOrder}
Locations == {"X"}
Products == {"sku1"}
UpdateInputs == {<<"set", 2>>, <<"add", 1>>, <<"subtract", 1>>}
ReserveAmounts == {2}
ReleaseAmounts == {2}
CommitAmounts == {2}
ExternalQuantities == {2}

\* lastSync: null (line 20) is modelled as time 0; the clock starts at 1.
NoSync == 0

Max(a, b) == IF a >= b THEN a ELSE b

----------------------------------------------------------------------------
\* Records.

\* applyUpdate lines 67-71: the record of the product, or a fresh zero record.
DefaultRecord == [quantity |-> 0, reserved |-> 0, version |-> 0, lastUpdated |-> 0]

CurrentOrDefault(inv, p) == IF p \in DOMAIN inv THEN inv[p] ELSE DefaultRecord

\* Faulty variant of line 86: the stock test is absent.
ReserveAlwaysAllowed(cur, u) == TRUE

\* line 86: the condition under which a reserve is accepted.
ReserveAllowed(cur, u) == cur.quantity >= u.quantity

\* lines 85-90: applyUpdate throws only for a reserve that is not accepted.
applyThrows(cur, u) == u.operation = "reserve" /\ ~ReserveAllowed(cur, u)

\* Faulty variant of line 76: a set is clamped at zero like a subtract.
NewQuantityClamped(cur, u) ==
    CASE u.operation = "set" -> Max(0, u.quantity)
      [] u.operation = "add" -> cur.quantity + u.quantity
      [] u.operation = "subtract" -> Max(0, cur.quantity - u.quantity)
      [] OTHER -> cur.quantity

\* lines 73-84: the new quantity.
NewQuantity(cur, u) ==
    CASE u.operation = "set" -> u.quantity
      [] u.operation = "add" -> cur.quantity + u.quantity
      [] u.operation = "subtract" -> Max(0, cur.quantity - u.quantity)
      [] OTHER -> cur.quantity

\* lines 85-94: the new reserved amount.
\* Faulty variant of lines 85-94: reserved is never changed.
NewReservedUnchanged(cur, u) == cur.reserved

\* Faulty variant of line 93: a release drops the whole reservation.
NewReservedReleaseAll(cur, u) ==
    CASE u.operation = "reserve" -> cur.reserved + u.quantity
      [] u.operation = "release" -> 0
      [] OTHER -> cur.reserved

NewReserved(cur, u) ==
    CASE u.operation = "reserve" -> cur.reserved + u.quantity
      [] u.operation = "release" -> Max(0, cur.reserved - u.quantity)
      [] OTHER -> cur.reserved

\* Faulty variant of line 100: the record keeps its version.
AppliedVersionKept(cur, u) == cur.version

\* lines 97-102: the record written back.
AppliedVersion(cur, u) == u.version

AppliedRecord(cur, u) ==
    [quantity |-> NewQuantity(cur, u),
     reserved |-> NewReserved(cur, u),
     version |-> AppliedVersion(cur, u),
     lastUpdated |-> u.timestamp]

\* Faulty variant of getVersion: the record's version is not read.
getVersionUnread(wh, w, p) == 0

\* getVersion lines 344-350.
getVersion(wh, w, p) ==
    IF w \notin DOMAIN wh THEN 0
    ELSE IF p \in DOMAIN wh[w].inventory THEN wh[w].inventory[p].version ELSE 0

----------------------------------------------------------------------------
\* The state threaded through the synchronous part of a handler.

Here == [wh |-> warehouses, sq |-> syncQueue, cf |-> conflicts, ev |-> events,
         calls |-> calls, mq |-> mq]

Task(kind, c, t, ok, k) ==
    [kind |-> kind, call |-> c, target |-> t, ok |-> ok, conflict |-> k, stale |-> FALSE]

NoTarget == "-"
NoCont == [kind |-> "none", items |-> <<>>]

\* A frame that has returned or thrown no longer holds its locals.
NoUpdate == [id |-> 0, warehouseId |-> NoTarget, productId |-> NoTarget, quantity |-> 0,
             operation |-> "none", timestamp |-> 0, version |-> 0]

Finished(state) ==
    [state |-> state, update |-> NoUpdate, localOk |-> state = "returned",
     remaining |-> 0, sync |-> <<>>, cont |-> NoCont]

\* applyUpdate (lines 66-105) when it does not throw.  current.reserved is
\* changed in place on the record object that is in the map (lines 87, 93)
\* before a new object replaces it (line 97): a conflict whose currentState
\* is that same object (live) sees the new reserved value, and stops being
\* the map's object afterwards.
applyUpdate(S, t, u) ==
    LET p == u.productId
        cur == CurrentOrDefault(S.wh[t].inventory, p)
        inv == S.wh[t].inventory
        newInv == [x \in DOMAIN inv \cup {p} |->
                      IF x = p THEN AppliedRecord(cur, u) ELSE inv[x]]
    IN [S EXCEPT
          !.wh = [@ EXCEPT ![t].inventory = newInv],
          !.cf = [k \in DOMAIN @ |->
                    IF @[k].live /\ @[k].warehouseId = t /\ @[k].productId = p
                    THEN [@[k] EXCEPT !.currentState.reserved = NewReserved(cur, u),
                                      !.live = FALSE]
                    ELSE @[k]]]

\* Faulty variant of emit: the listeners are notified twice.
emitTwice(S, type, ref) ==
    [S EXCEPT !.ev = Append(Append(@, [type |-> type, ref |-> ref]), [type |-> type, ref |-> ref])]

emit(S, type, ref) == [S EXCEPT !.ev = Append(@, [type |-> type, ref |-> ref])]

\* line 162: last-write-wins test.
IncomingWins(u, cur) == u.timestamp > cur.lastUpdated

\* handleConflict (lines 148-174) up to its first await, or to its end when
\* the current state is kept.
handleConflict(S, t, u, c) ==
    LET cur == S.wh[t].inventory[u.productId]
        k == Len(S.cf) + 1
        conflict == [id |-> k, warehouseId |-> t, productId |-> u.productId,
                     incomingUpdate |-> u, currentState |-> cur, timestamp |-> now,
                     resolved |-> FALSE, resolution |-> "none", live |-> TRUE]
        S1 == [S EXCEPT !.cf = Append(@, conflict)]
    IN IF IncomingWins(u, cur)
       THEN IF applyThrows(cur, u)
            THEN [S1 EXCEPT !.mq = Append(@, Task("afterConflictApply", c, t, FALSE, k)),
                            !.calls[c].sync = [x \in DOMAIN @ \cup {t} |->
                                   IF x = t THEN "acceptFailed" ELSE @[x]]]
            ELSE [applyUpdate(S1, t, u) EXCEPT
                            !.mq = Append(@, Task("afterConflictApply", c, t, TRUE, k)),
                            !.calls[c].sync = [x \in DOMAIN @ \cup {t} |->
                                   IF x = t THEN "accepted" ELSE @[x]]]
       ELSE LET S2 == [S1 EXCEPT !.cf[k].resolved = TRUE,
                                 !.cf[k].resolution = "kept_current",
                                 !.calls[c].sync = [x \in DOMAIN @ \cup {t} |->
                                   IF x = t THEN "kept" ELSE @[x]]]
            IN [emit(S2, "inventory:conflict", k) EXCEPT
                            !.mq = Append(@, Task("afterHandleConflict", c, t, TRUE, k))]

\* Faulty variant of line 130: the update that follows the record's version
\* is taken for a conflict too.
IsConflictOffByOne(inv, u) ==
    u.productId \in DOMAIN inv /\ inv[u.productId].version + 1 >= u.version

\* Faulty variant of line 130: > in place of >=.
IsConflictStrict(inv, u) ==
    u.productId \in DOMAIN inv /\ inv[u.productId].version > u.version

\* line 130: the conflict test of syncToWarehouse.
IsConflict(inv, u) ==
    u.productId \in DOMAIN inv /\ inv[u.productId].version >= u.version

\* syncToWarehouse (lines 125-143) up to its first await.
syncToWarehouse(S, t, u, c) ==
    LET inv == S.wh[t].inventory
    IN IF IsConflict(inv, u)
       THEN handleConflict(S, t, u, c)
       ELSE IF applyThrows(CurrentOrDefault(inv, u.productId), u)
            THEN [S EXCEPT !.mq = Append(@, Task("afterSyncApply", c, t, FALSE, 0)),
                           !.calls[c].sync = [x \in DOMAIN @ \cup {t} |->
                                   IF x = t THEN "applyFailed" ELSE @[x]]]
            ELSE [applyUpdate(S, t, u) EXCEPT
                           !.mq = Append(@, Task("afterSyncApply", c, t, TRUE, 0)),
                           !.calls[c].sync = [x \in DOMAIN @ \cup {t} |->
                                   IF x = t THEN "applied" ELSE @[x]]]

\* Faulty variant of the filter of line 114: the comparison with the origin
\* is inverted.
IsTargetAnyStatus(wh, id, u) == id /= u.warehouseId

IsTargetOrigin(wh, id, u) == id = u.warehouseId /\ wh[id].status = "active"

\* line 114: the warehouses an update is propagated to, in Map order.
IsTarget(wh, id, u) == id /= u.warehouseId /\ wh[id].status = "active"

RECURSIVE Targets(_, _, _)
Targets(wh, ord, u) ==
    IF ord = <<>> THEN <<>>
    ELSE IF IsTarget(wh, Head(ord), u)
         THEN <<Head(ord)>> \o Targets(wh, Tail(ord), u)
         ELSE Targets(wh, Tail(ord), u)

RECURSIVE syncAll(_, _, _, _)
syncAll(S, ts, u, c) ==
    IF ts = <<>> THEN S
    ELSE syncAll(syncToWarehouse(S, Head(ts), u, c), Tail(ts), u, c)

\* propagateUpdate (lines 110-120) up to its await of Promise.all.  With no
\* target Promise.all([]) is already fulfilled and the continuation is queued
\* at once.
propagateUpdate(S, u, c) ==
    LET ts == Targets(S.wh, order, u)
        S1 == [syncAll(S, ts, u, c) EXCEPT !.calls[c].remaining = Len(ts),
                                           !.calls[c].state = "propagating"]
    IN IF ts = <<>>
       THEN [S1 EXCEPT !.mq = Append(@, Task("afterPromiseAll", c, NoTarget, TRUE, 0))]
       ELSE S1

\* Faulty variant of the lookup: the guard of lines 34-36 is absent.
WarehouseNeverMissing(wh, w) == FALSE

\* lines 32-36: the registry lookup of updateInventory and syncFromExternalSystem.
WarehouseMissing(wh, w) == w \notin DOMAIN wh

\* lines 48-49: the update is pushed on the sync queue before it is applied.
Enqueue(sq, u) == Append(sq, u.id)

\* updateInventory (lines 31-52) from the lookup that succeeded up to the
\* await of the local applyUpdate.  cont is what the caller does once the
\* returned promise is fulfilled (commitReservation, syncFromExternalSystem).
startUpdate(S, w, p, q, op, cont, ts) ==
    LET c == Len(S.sq) + 1
        u == [id |-> c, warehouseId |-> w, productId |-> p, quantity |-> q,
              operation |-> op, timestamp |-> ts,
              version |-> getVersion(S.wh, w, p) + 1]
        S1 == [S EXCEPT !.sq = Enqueue(@, u)]
        \* applyUpdate(undefined, update) throws a TypeError at line 67
        throws == IF w \in DOMAIN S.wh
                  THEN applyThrows(CurrentOrDefault(S.wh[w].inventory, p), u)
                  ELSE TRUE
        frame == [state |-> "awaitLocal", update |-> u, localOk |-> ~throws, remaining |-> 0,
                  sync |-> <<>>, cont |-> cont]
        S2 == [S1 EXCEPT !.calls = Append(@, frame),
                         !.mq = Append(@, Task("afterLocalApply", c, NoTarget, ~throws, 0))]
    IN IF throws THEN S2 ELSE applyUpdate(S2, w, u)

----------------------------------------------------------------------------
\* Microtasks.

SetVars(S) ==
    /\ warehouses' = S.wh
    /\ syncQueue' = S.sq
    /\ conflicts' = S.cf
    /\ events' = S.ev
    /\ calls' = S.calls
    /\ mq' = S.mq

\* Faulty variant of the catch: the error is swallowed without line 141.
countFailureSkipped(S, task) == S

\* lines 139-142: the catch of syncToWarehouse.  The warehouse object the
\* frame holds is no longer the registry's when the id was registered again
\* (stale): the increment then lands on the replaced object.
countFailure(S, task) ==
    IF task.stale THEN S ELSE [S EXCEPT !.wh[task.target].lag = @ + 1]

\* line 137
markSynced(S, task) ==
    IF task.stale THEN S ELSE [S EXCEPT !.wh[task.target].lastSync = now]

\* lines 164-165
resolveAccepted(S, k) ==
    [S EXCEPT !.cf[k].resolved = TRUE, !.cf[k].resolution = "accepted_incoming"]

ContSize(cont) ==
    CASE cont.kind = "commit" -> 1
      [] cont.kind = "external" -> Len(cont.items)
      [] OTHER -> 0

RECURSIVE SumCont(_)
SumCont(cs) == IF cs = <<>> THEN 0 ELSE ContSize(Head(cs).cont) + SumCont(Tail(cs))

\* updates created so far plus those the running compound calls will still create
Budget == Len(syncQueue) + SumCont(calls)

\* The continuation that runs when the microtask `task` is taken from the
\* queue; S already has the task removed.
runTask(S, task, ts) ==
    LET c == task.call
        u == S.calls[c].update
    IN CASE task.kind = "afterLocalApply" ->
              \* line 52 resumes: the rejection is thrown to the caller, or line 55
              IF task.ok THEN propagateUpdate(S, u, c)
              ELSE [S EXCEPT !.calls[c] = Finished("failed")]
         [] task.kind = "afterSyncApply" ->
              \* line 136 resumes: line 137, or the catch
              [(IF task.ok THEN markSynced(S, task) ELSE countFailure(S, task)) EXCEPT
                  !.mq = Append(@, Task("promiseAllElement", c, task.target, TRUE, 0))]
         [] task.kind = "afterConflictApply" ->
              \* line 163 resumes: lines 164-173, or handleConflict rejects
              IF task.ok
              THEN [emit(resolveAccepted(S, task.conflict), "inventory:conflict", task.conflict)
                      EXCEPT !.mq = Append(@, [task EXCEPT !.kind = "afterHandleConflict"])]
              ELSE [S EXCEPT !.mq = Append(@, [task EXCEPT !.kind = "afterHandleConflict"])]
         [] task.kind = "afterHandleConflict" ->
              \* line 131 resumes: return, or the catch
              [(IF task.ok THEN S ELSE countFailure(S, task)) EXCEPT
                  !.mq = Append(@, Task("promiseAllElement", c, task.target, TRUE, 0))]
         [] task.kind = "promiseAllElement" ->
              \* Promise.all (line 119) counts one settled element
              IF S.calls[c].remaining = 1
              THEN [S EXCEPT !.calls[c].remaining = 0,
                             !.mq = Append(@, Task("afterPromiseAll", c, NoTarget, TRUE, 0))]
              ELSE [S EXCEPT !.calls[c].remaining = @ - 1]
         [] task.kind = "afterPromiseAll" ->
              \* line 119 resumes: propagateUpdate returns
              [S EXCEPT !.mq = Append(@, Task("afterPropagate", c, NoTarget, TRUE, 0))]
         [] task.kind = "afterPropagate" ->
              \* line 55 resumes: lines 58-60
              LET kind == S.calls[c].cont.kind
                  S1 == [emit(S, "inventory:updated", c) EXCEPT
                            !.calls[c] = IF kind = "none" THEN Finished("returned")
                                         ELSE [@ EXCEPT !.state = "returned"]]
              IN IF kind = "commit"
                 THEN [S1 EXCEPT !.mq = Append(@, Task("wrapperReturn", c, NoTarget, TRUE, 0))]
                 ELSE IF kind = "external"
                 THEN [S1 EXCEPT !.mq = Append(@, Task("externalNext", c, NoTarget, TRUE, 0))]
                 ELSE S1
         [] task.kind = "wrapperReturn" ->
              \* line 253 resumes: releaseInventory returns to commitReservation
              [S EXCEPT !.mq = Append(@, Task("commitSubtract", c, NoTarget, TRUE, 0))]
         [] task.kind = "commitSubtract" ->
              \* line 261 resumes: line 262
              startUpdate([S EXCEPT !.calls[c] = Finished("returned")],
                          u.warehouseId, u.productId, u.quantity, "subtract", NoCont, ts)
         [] OTHER ->
              \* "externalNext": line 278 resumes: line 284, then the next item or the end
              LET items == S.calls[c].cont.items
                  S1 == [S EXCEPT !.calls[c] = Finished("returned")]
              IN IF items = <<>> THEN S1
                 ELSE startUpdate(S1, u.warehouseId, Head(items).productId,
                                  Head(items).quantity, "set",
                                  [kind |-> "external", items |-> Tail(items)], ts)

\* Date.now() (line 44): the clock never runs backwards, and two reads may
\* return the same millisecond.
ClockReads == {t \in now..(now + 1) : t <= MaxTime}

CreatesUpdate(S, task) ==
    \/ task.kind = "commitSubtract"
    \/ task.kind = "externalNext" /\ S.calls[task.call].cont.items /= <<>>

RunMicrotask ==
    /\ mq /= <<>>
    /\ \E ts \in (IF CreatesUpdate(Here, Head(mq)) THEN ClockReads ELSE {now}) :
          /\ SetVars(runTask([Here EXCEPT !.mq = Tail(mq)], Head(mq), ts))
          /\ now' = ts
    /\ lastCall' = [api |-> "microtask", warehouseId |-> NoTarget, status |-> "ok"]
    /\ UNCHANGED order

----------------------------------------------------------------------------
\* API calls: the synchronous part of each method.

NewWarehouse(id, loc) ==
    [id |-> id, location |-> loc, inventory |-> <<>>, lastSync |-> NoSync,
     status |-> "active", lag |-> 0]

\* registerWarehouse lines 16-23: Map.set, whether or not the id is known.
Registered(wh, id, loc) ==
    [x \in DOMAIN wh \cup {id} |-> IF x = id THEN NewWarehouse(id, loc) ELSE wh[x]]

registerWarehouse(id, loc) ==
    /\ warehouses' = Registered(warehouses, id, loc)
    /\ order' = IF id \in DOMAIN warehouses THEN order ELSE Append(order, id)
    \* frames and conflicts that hold the replaced warehouse's objects keep them
    /\ mq' = [i \in DOMAIN mq |->
                IF mq[i].target = id THEN [mq[i] EXCEPT !.stale = TRUE] ELSE mq[i]]
    /\ conflicts' = [k \in DOMAIN conflicts |->
                IF conflicts[k].warehouseId = id
                THEN [conflicts[k] EXCEPT !.live = FALSE] ELSE conflicts[k]]
    /\ lastCall' = [api |-> "registerWarehouse", warehouseId |-> id, status |-> "ok"]
    /\ UNCHANGED <<syncQueue, events, calls, now>>

\* The call is rejected with `Warehouse ... not found` (lines 34-36, 271-273).
NotFound(api, w) ==
    /\ lastCall' = [api |-> api, warehouseId |-> w, status |-> "WarehouseNotFound"]
    /\ UNCHANGED <<warehouses, order, syncQueue, conflicts, events, calls, mq, now>>

Start(api, w, p, q, op, cont) ==
    IF WarehouseMissing(warehouses, w)
    THEN NotFound(api, w)
    ELSE \E ts \in ClockReads :
            /\ SetVars(startUpdate(Here, w, p, q, op, cont, ts))
            /\ now' = ts
            /\ lastCall' = [api |-> api, warehouseId |-> w, status |-> "started"]
            /\ UNCHANGED order

updateInventory(w, p, q, op) == Start("updateInventory", w, p, q, op, NoCont)

\* lines 245-247
reserveInventory(w, p, q) == Start("reserveInventory", w, p, q, "reserve", NoCont)

\* lines 252-254
releaseInventory(w, p, q) == Start("releaseInventory", w, p, q, "release", NoCont)

\* Faulty variant of commitReservation: line 262 is absent.
commitReleaseOnly(w, p, q) == Start("commitReservation", w, p, q, "release", NoCont)

\* lines 259-263: release, and once that has returned, subtract
commitReservation(w, p, q) ==
    Start("commitReservation", w, p, q, "release", [kind |-> "commit", items |-> <<>>])

\* lines 268-289
syncFromExternalSystem(w, items) ==
    IF WarehouseMissing(warehouses, w) \/ items = <<>>
    THEN /\ lastCall' = [api |-> "syncFromExternalSystem", warehouseId |-> w,
                         status |-> IF WarehouseMissing(warehouses, w)
                                    THEN "WarehouseNotFound" ELSE "ok"]
         /\ UNCHANGED <<warehouses, order, syncQueue, conflicts, events, calls, mq, now>>
    ELSE Start("syncFromExternalSystem", w, Head(items).productId, Head(items).quantity,
               "set", [kind |-> "external", items |-> Tail(items)])

Item == [productId : Products, quantity : ExternalQuantities]
ItemLists == UNION {[1..n -> Item] : n \in 1..MaxItems}

----------------------------------------------------------------------------
\* Read operations.

RECURSIVE BreakdownWithZeros(_, _, _)
\* Faulty variant of lines 185-198: the test of line 187 is absent and a
\* warehouse without a record is listed with zeros.
BreakdownWithZeros(wh, ord, p) ==
    IF ord = <<>> THEN <<>>
    ELSE LET w == Head(ord)
             r == CurrentOrDefault(wh[w].inventory, p)
         IN <<[warehouseId |-> w, location |-> wh[w].location, quantity |-> r.quantity,
               reserved |-> r.reserved, available |-> r.quantity - r.reserved]>>
            \o BreakdownWithZeros(wh, Tail(ord), p)

RECURSIVE Breakdown(_, _, _)
\* lines 184-199: one entry per warehouse that holds a record, in Map order.
Breakdown(wh, ord, p) ==
    IF ord = <<>> THEN <<>>
    ELSE LET w == Head(ord)
             rest == Breakdown(wh, Tail(ord), p)
         IN IF p \in DOMAIN wh[w].inventory
            THEN <<[warehouseId |-> w, location |-> wh[w].location,
                    quantity |-> wh[w].inventory[p].quantity,
                    reserved |-> wh[w].inventory[p].reserved,
                    available |-> wh[w].inventory[p].quantity
                                  - wh[w].inventory[p].reserved]>> \o rest
            ELSE rest

RECURSIVE SumQuantity(_)
SumQuantity(entries) ==
    IF entries = <<>> THEN 0 ELSE Head(entries).quantity + SumQuantity(Tail(entries))

RECURSIVE SumReserved(_)
SumReserved(entries) ==
    IF entries = <<>> THEN 0 ELSE Head(entries).reserved + SumReserved(Tail(entries))

\* getGlobalInventory lines 179-209, read at time t.
getGlobalInventory(wh, ord, p, t) ==
    LET entries == Breakdown(wh, ord, p)
        totalQuantity == SumQuantity(entries)
        totalReserved == SumReserved(entries)
    IN [productId |-> p, totalQuantity |-> totalQuantity, totalReserved |-> totalReserved,
        totalAvailable |-> totalQuantity - totalReserved, warehouses |-> entries,
        lastUpdated |-> t]

\* getSyncStatus line 319.
unresolvedConflicts(cf) == Cardinality({k \in DOMAIN cf : ~cf[k].resolved})

----------------------------------------------------------------------------
\* Arbitrary callers.

NoScript == [script |-> <<>>, pos |-> 0]

Init ==
    /\ warehouses = <<>>
    /\ order = <<>>
    /\ syncQueue = <<>>
    /\ conflicts = <<>>
    /\ events = <<>>
    /\ calls = <<>>
    /\ mq = <<>>
    /\ now = 1
    /\ lastCall = [api |-> "constructor", warehouseId |-> NoTarget, status |-> "ok"]
    /\ caller = NoScript

\* Callers run as tasks: a task starts when no microtask is pending and may
\* make several calls back to back, so a new call finds every running call
\* at its first await.
InFlight == Cardinality({c \in DOMAIN calls : calls[c].update.id /= 0})

AtTaskPoint == \A i \in DOMAIN mq : mq[i].kind = "afterLocalApply"

\* n: the number of updates the call creates
MayCall(n) ==
    /\ AtTaskPoint
    /\ InFlight < MaxInFlight
    /\ Budget + n <= MaxCalls

\* each id is registered once
MayRegister(id) ==
    /\ AtTaskPoint
    /\ Len(order) < Len(WarehouseOrder)
    /\ id = WarehouseOrder[Len(order) + 1]

Next ==
    \/ \E id \in WarehouseIds, loc \in Locations :
          MayRegister(id) /\ registerWarehouse(id, loc) /\ UNCHANGED caller
    \/ \E w \in WarehouseIds, p \in Products, i \in UpdateInputs :
          MayCall(1) /\ updateInventory(w, p, i[2], i[1]) /\ UNCHANGED caller
    \/ \E w \in WarehouseIds, p \in Products, q \in ReserveAmounts :
          MayCall(1) /\ reserveInventory(w, p, q) /\ UNCHANGED caller
    \/ \E w \in WarehouseIds, p \in Products, q \in ReleaseAmounts :
          MayCall(1) /\ releaseInventory(w, p, q) /\ UNCHANGED caller
    \/ \E w \in WarehouseIds, p \in Products, q \in CommitAmounts :
          MayCall(2) /\ commitReservation(w, p, q) /\ UNCHANGED caller
    \/ \E w \in WarehouseIds, items \in ItemLists :
          MayCall(Len(items)) /\ syncFromExternalSystem(w, items) /\ UNCHANGED caller
    \/ RunMicrotask /\ UNCHANGED caller

Spec == Init /\ [][Next]_vars

----------------------------------------------------------------------------
\* A scripted caller: it makes the calls of its script in order, each one
\* after the call before it has settled (await).

Call(api, w, loc, p, q, op) ==
    [api |-> api, w |-> w, loc |-> loc, p |-> p, q |-> q, op |-> op]

Issue(d) ==
    \/ d.api = "registerWarehouse" /\ registerWarehouse(d.w, d.loc)
    \/ d.api = "updateInventory" /\ updateInventory(d.w, d.p, d.q, d.op)
    \/ d.api = "reserveInventory" /\ reserveInventory(d.w, d.p, d.q)
    \/ d.api = "releaseInventory" /\ releaseInventory(d.w, d.p, d.q)
    \/ d.api = "commitReservation" /\ commitReservation(d.w, d.p, d.q)

ScriptStep ==
    /\ mq = <<>>
    /\ caller.pos < Len(caller.script)
    /\ Issue(caller.script[caller.pos + 1])
    /\ caller' = [caller EXCEPT !.pos = @ + 1]

ScriptNext ==
    \/ ScriptStep
    \/ RunMicrotask /\ UNCHANGED caller

Scripts(alphabet, n) == UNION {[1..k -> alphabet] : k \in 0..n}

InitScript(scripts) ==
    /\ warehouses = <<>>
    /\ order = <<>>
    /\ syncQueue = <<>>
    /\ conflicts = <<>>
    /\ events = <<>>
    /\ calls = <<>>
    /\ mq = <<>>
    /\ now = 1
    /\ lastCall = [api |-> "constructor", warehouseId |-> NoTarget, status |-> "ok"]
    /\ caller \in {[script |-> sc, pos |-> 0] : sc \in scripts}

\* The scenario of the specification's section 8: warehouses A (location X)
\* and B (location Y), set sku1 to 100 at A, reserve 30 at A.
ScenarioCalls ==
    {Call("registerWarehouse", "A", "X", NoTarget, 0, "none"),
     Call("registerWarehouse", "B", "Y", NoTarget, 0, "none"),
     Call("updateInventory", "A", "-", "sku1", 100, "set"),
     Call("reserveInventory", "A", "-", "sku1", 30, "reserve")}

ScenarioLength == 4

ScenarioSpec == InitScript(Scripts(ScenarioCalls, ScenarioLength)) /\ [][ScriptNext]_vars


----------------------------------------------------------------------------
\* Properties.

Records == {<<w, p>> \in WarehouseIds \X Products :
               w \in DOMAIN warehouses /\ p \in DOMAIN warehouses[w].inventory}

Record(w, p) == warehouses[w].inventory[p]

\* C1: in every reachable state every inventory record of every warehouse has
\* 0 <= reserved <= quantity.
ReservedWithinQuantity ==
    \A r \in Records :
        /\ 0 <= Record(r[1], r[2]).reserved
        /\ Record(r[1], r[2]).reserved <= Record(r[1], r[2]).quantity

\* C2: the version of a (warehouse, product) record never decreases from one
\* state to the next while the record exists.
VersionNeverDecreases ==
    [][\A r \in Records :
          /\ r[1] \in DOMAIN warehouses'
          /\ r[2] \in DOMAIN warehouses'[r[1]].inventory
          /\ warehouses'[r[1]].inventory[r[2]].version >= Record(r[1], r[2]).version]_vars

\* The step on which a call creates a reserve update at its warehouse.
ReserveStarts ==
    /\ Len(syncQueue') = Len(syncQueue) + 1
    /\ calls'[Len(syncQueue')].update.operation = "reserve"

\* C3: a reserve of n on a record succeeds, adding n to reserved, exactly when
\* quantity - reserved >= n held before it; otherwise it fails with the
\* insufficient-inventory error and the record is left as it was.
ReserveExactlyWhenAvailable ==
    [][ReserveStarts =>
          LET c == Len(syncQueue')
              u == calls'[c].update
              w == u.warehouseId
              inv == warehouses[w].inventory
              cur == CurrentOrDefault(inv, u.productId)
          IN /\ calls'[c].localOk <=> (cur.quantity - cur.reserved >= u.quantity)
             /\ calls'[c].localOk =>
                   warehouses'[w].inventory[u.productId].reserved = cur.reserved + u.quantity
             /\ ~calls'[c].localOk => warehouses'[w].inventory = inv]_vars

\* The scripted caller has made exactly the first k calls of the scenario
\* and every one of them has settled.
ScenarioScript ==
    <<Call("registerWarehouse", "A", "X", NoTarget, 0, "none"),
      Call("registerWarehouse", "B", "Y", NoTarget, 0, "none"),
      Call("updateInventory", "A", "-", "sku1", 100, "set"),
      Call("reserveInventory", "A", "-", "sku1", 30, "reserve")>>

ScenarioDone(k) ==
    /\ caller.pos = k
    /\ Len(caller.script) >= k
    /\ SubSeq(caller.script, 1, k) = SubSeq(ScenarioScript, 1, k)
    /\ mq = <<>>

Global == getGlobalInventory(warehouses, order, "sku1", now)

HasSku(w) == w \in DOMAIN warehouses /\ "sku1" \in DOMAIN warehouses[w].inventory

\* C4 as stated: after A and B are registered and sku1 is set to 100 at A, the
\* global total quantity is 100, B holds quantity 100 and no conflict is recorded.
SetScenarioTotalIs100 ==
    ScenarioDone(3) =>
        /\ Global.totalQuantity = 100
        /\ HasSku("B") /\ Record("B", "sku1").quantity = 100
        /\ conflicts = <<>>

\* C4 amended: after A and B are registered and sku1 is set to 100 at A, both
\* A and B hold quantity 100, the global total quantity is their sum 200, and
\* no conflict is recorded.
SetScenarioTotalIs200 ==
    ScenarioDone(3) =>
        /\ HasSku("A") /\ Record("A", "sku1").quantity = 100
        /\ HasSku("B") /\ Record("B", "sku1").quantity = 100
        /\ Global.totalQuantity = 200
        /\ conflicts = <<>>

SetScenarioReached == ScenarioDone(3) /\ calls[1].state = "returned"

\* C5 as stated: after the reserve of 30 at A the global total reserved is 30
\* and the global total available is 70.
ReserveScenarioTotalsAre30And70 ==
    ScenarioDone(4) =>
        /\ Global.totalReserved = 30
        /\ Global.totalAvailable = 70

\* C5 amended: after the reserve of 30 at A the reservation is held by A and
\* by its replica B, so the global total reserved is 60 and the global total
\* available is 140.
ReserveScenarioTotalsAre60And140 ==
    ScenarioDone(4) =>
        /\ HasSku("A") /\ Record("A", "sku1").reserved = 30
        /\ HasSku("B") /\ Record("B", "sku1").reserved = 30
        /\ Global.totalReserved = 60
        /\ Global.totalAvailable = 140

ReserveScenarioReached ==
    ScenarioDone(4) /\ calls[2].state = "returned" /\ Len(events) = 2

\* C6: in every reachable state every conflict has resolved = true and a
\* resolution of accepted_incoming or kept_current, and getSyncStatus reports
\* no unresolved conflict.
NoConflictPending ==
    /\ \A k \in DOMAIN conflicts :
          /\ conflicts[k].resolved
          /\ conflicts[k].resolution \in {"accepted_incoming", "kept_current"}
    /\ unresolvedConflicts(conflicts) = 0

\* A conflict whose acceptance threw is still unresolved when nothing is
\* left to run.
ConflictSettledAtRest == mq = <<>> => unresolvedConflicts(conflicts) = 0

----------------------------------------------------------------------------
\* Out-of-order arrival.  Versions restart at 1 when the origin's id is
\* registered again, so an update of a lower version can follow one of a
\* higher version from the same (warehouse, product).  Every update
\* originates at A; C is the third warehouse.

EarlyCalls ==
    {Call("updateInventory", "A", "-", "sku1", 1, "add"),
     Call("updateInventory", "A", "-", "sku1", 1, "subtract"),
     Call("updateInventory", "A", "-", "sku1", 2, "set")}

LateCalls ==
    {Call("updateInventory", "A", "-", "sku1", 2, "set"),
     Call("updateInventory", "A", "-", "sku1", 1, "add"),
     Call("reserveInventory", "A", "-", "sku1", 2, "reserve")}

EarlyLength == 3
LateLength == 2

ReorderScripts ==
    {<<Call("registerWarehouse", "A", "X", NoTarget, 0, "none"),
       Call("registerWarehouse", "C", "X", NoTarget, 0, "none")>>
       \o early
       \o <<Call("registerWarehouse", "A", "X", NoTarget, 0, "none")>>
       \o late :
       early \in [1..EarlyLength -> EarlyCalls], late \in [1..LateLength -> LateCalls]}

ReorderSpec == InitScript(ReorderScripts) /\ [][ScriptNext]_vars

\* The microtask step that resumes updateInventory after the local apply and
\* delivers the update to every target.
Delivering ==
    /\ mq /= <<>>
    /\ lastCall'.api = "microtask"
    /\ Head(mq).kind = "afterLocalApply"
    /\ Head(mq).ok

\* The target already holds the version after the update's.
LateArrival(t, u) ==
    /\ t \in DOMAIN warehouses
    /\ t /= u.warehouseId
    /\ u.productId \in DOMAIN warehouses[t].inventory
    /\ warehouses[t].inventory[u.productId].version = u.version + 1

NewConflictsAt(t) ==
    {k \in DOMAIN conflicts' : k > Len(conflicts) /\ conflicts'[k].warehouseId = t}

LastWriteWins(cur, u) ==
    IF u.timestamp > cur.lastUpdated THEN AppliedRecord(cur, u) ELSE cur

\* C7: when an update of version N reaches a third warehouse that already
\* holds version N+1 of the same (warehouse, product), the third warehouse's
\* record becomes the result of applying the update with the later timestamp,
\* exactly one conflict is recorded for it, and that conflict is resolved
\* once its handling has ended.
OutOfOrderResolvedByLastWrite ==
    [][/\ Delivering =>
            LET u == calls[Head(mq).call].update
            IN \A t \in WarehouseIds :
                  LateArrival(t, u) =>
                     /\ Cardinality(NewConflictsAt(t)) = 1
                     /\ warehouses'[t].inventory[u.productId]
                           = LastWriteWins(warehouses[t].inventory[u.productId], u)
       /\ (/\ mq /= <<>>
           /\ lastCall'.api = "microtask"
           /\ Head(mq).kind = "afterHandleConflict") =>
            LET k == Head(mq).conflict
            IN conflicts[k].currentState.version = conflicts[k].incomingUpdate.version + 1
                  => conflicts'[k].resolved]_vars

\* The out-of-order arrival happened: a conflict whose incoming update is one
\* version behind the state it met.
OutOfOrderArrived ==
    \E k \in DOMAIN conflicts :
        conflicts[k].currentState.version = conflicts[k].incomingUpdate.version + 1

----------------------------------------------------------------------------
\* Propagation failures and rejected calls.

FailedDelivery ==
    /\ mq /= <<>>
    /\ lastCall'.api = "microtask"
    /\ ~Head(mq).ok
    /\ Head(mq).kind \in {"afterSyncApply", "afterHandleConflict"}

\* Whether the delivery of u changes the record at t.
Delivered(inv, u) ==
    LET cur == CurrentOrDefault(inv, u.productId)
    IN /\ ~applyThrows(cur, u)
       /\ IsConflict(inv, u) => IncomingWins(u, cur)

\* C8: when a propagated update fails at one target, that target's lag grows
\* by exactly 1 and nothing else changes lag; the update is still applied at
\* every other target that can take it; the origin's record is kept; and the
\* originating call goes on to return, never to fail.
PropagationFailureIsolated ==
    [][/\ FailedDelivery =>
            LET t == Head(mq).target
                c == Head(mq).call
            IN /\ warehouses'[t].lag = warehouses[t].lag + 1
               /\ \A w \in DOMAIN warehouses :
                     /\ warehouses'[w].inventory = warehouses[w].inventory
                     /\ w /= t => warehouses'[w].lag = warehouses[w].lag
               /\ calls'[c].state = "propagating"
               /\ calls'[c].localOk
       /\ ~FailedDelivery =>
            \A w \in DOMAIN warehouses : warehouses'[w].lag = warehouses[w].lag
       /\ Delivering =>
            LET u == calls[Head(mq).call].update
            IN \A w \in DOMAIN warehouses :
                  LET inv == warehouses[w].inventory
                  IN IF w /= u.warehouseId /\ Delivered(inv, u)
                     THEN warehouses'[w].inventory[u.productId]
                             = AppliedRecord(CurrentOrDefault(inv, u.productId), u)
                     ELSE warehouses'[w].inventory = inv
       /\ \A c \in DOMAIN calls :
             calls[c].state = "propagating" =>
                calls'[c].state \in {"propagating", "returned"}]_vars

\* One target of a call could not apply the update, its lag was counted, and
\* another target of the same call applied it.
FailureBesideSuccess ==
    \E c \in DOMAIN calls :
       \E t1 \in DOMAIN calls[c].sync, t2 \in DOMAIN calls[c].sync :
          /\ calls[c].sync[t1] = "applyFailed"
          /\ calls[c].sync[t2] = "applied"
          /\ warehouses[t1].lag = 1
          /\ calls[c].remaining = 0

\* C9: registerWarehouse with an id that is already registered signals a
\* duplicate-warehouse error and leaves the registry as it was.
DuplicateRegistrationRejected ==
    [][(lastCall'.api = "registerWarehouse" /\ lastCall'.warehouseId \in DOMAIN warehouses) =>
          /\ lastCall'.status = "DuplicateWarehouseError"
          /\ warehouses' = warehouses
          /\ order' = order]_vars

UpdateApis ==
    {"updateInventory", "reserveInventory", "releaseInventory", "commitReservation",
     "syncFromExternalSystem"}

\* C10: a call of one of the five update APIs with an id that is not
\* registered is rejected with warehouse-not-found and changes nothing: no
\* record, no sync-queue entry, no conflict, no event, no pending work.
UnknownWarehouseRejected ==
    [][(lastCall'.api \in UpdateApis /\ lastCall'.warehouseId \notin DOMAIN warehouses) =>
          /\ lastCall'.status = "WarehouseNotFound"
          /\ UNCHANGED <<warehouses, order, syncQueue, conflicts, events, calls, mq>>]_vars

\* A commitReservation on an unregistered id was rejected while another
\* warehouse was registered and held a record.
UnknownWarehouseCallRejected ==
    /\ lastCall.status = "WarehouseNotFound"
    /\ lastCall.api = "commitReservation"
    /\ lastCall.warehouseId \notin DOMAIN warehouses
    /\ Records /= {}

----------------------------------------------------------------------------
\* Failed reserves.

\* The microtask step that resumes updateInventory after a local apply that threw.
LocalApplyRejected ==
    /\ mq /= <<>>
    /\ lastCall'.api = "microtask"
    /\ Head(mq).kind = "afterLocalApply"
    /\ ~Head(mq).ok

\* C11: a reserve of more than the quantity of its origin's record (so more
\* than is available when nothing is reserved; no record counts as quantity
\* 0) is rejected to the caller, changes or creates no record in any
\* warehouse, and is not propagated: no delivery, conflict or event follows.
FailedReserveLeavesRecords ==
    [][/\ ReserveStarts =>
            LET c == Len(syncQueue')
                u == calls'[c].update
                cur == CurrentOrDefault(warehouses[u.warehouseId].inventory, u.productId)
            IN cur.quantity < u.quantity =>
                  /\ ~calls'[c].localOk
                  /\ warehouses' = warehouses
                  /\ conflicts' = conflicts
                  /\ events' = events
       /\ LocalApplyRejected =>
            /\ calls'[Head(mq).call].state = "failed"
            /\ warehouses' = warehouses
            /\ conflicts' = conflicts
            /\ events' = events
            /\ mq' = Tail(mq)]_vars

\* A reserve of 2 was rejected where every record has quantity 1 and nothing
\* reserved, with a second warehouse registered to propagate to.
ReserveOfOneTooManyFailed ==
    /\ calls /= <<>>
    /\ calls[Len(calls)].state = "failed"
    /\ mq = <<>>
    /\ Cardinality(DOMAIN warehouses) >= 2
    /\ Records /= {}
    /\ \A r \in Records : Record(r[1], r[2]).quantity = 1 /\ Record(r[1], r[2]).reserved = 0

----------------------------------------------------------------------------
\* Round trips.  A caller that awaits each of its calls and reads the record
\* it is about to reserve on (before) starts from a stock built by a few
\* calls at A, reserves 2 at A, and then releases or commits the 2.

SetupCalls ==
    {Call("updateInventory", "A", "-", "sku1", 2, "set"),
     Call("updateInventory", "A", "-", "sku1", 1, "add"),
     Call("updateInventory", "A", "-", "sku1", 1, "subtract"),
     Call("reserveInventory", "A", "-", "sku1", 2, "reserve"),
     Call("releaseInventory", "A", "-", "sku1", 2, "release")}

SetupLength == 3

ReserveCall == Call("reserveInventory", "A", "-", "sku1", 2, "reserve")
ReleaseCall == Call("releaseInventory", "A", "-", "sku1", 2, "release")
CommitCall == Call("commitReservation", "A", "-", "sku1", 2, "commit")

RoundTripScripts ==
    {<<Call("registerWarehouse", "A", "X", NoTarget, 0, "none"),
       Call("registerWarehouse", "B", "X", NoTarget, 0, "none")>>
       \o setup \o <<ReserveCall, last>> :
       setup \in Scripts(SetupCalls, SetupLength), last \in {ReleaseCall, CommitCall}}

InitRoundTrip ==
    /\ warehouses = <<>>
    /\ order = <<>>
    /\ syncQueue = <<>>
    /\ conflicts = <<>>
    /\ events = <<>>
    /\ calls = <<>>
    /\ mq = <<>>
    /\ now = 1
    /\ lastCall = [api |-> "constructor", warehouseId |-> NoTarget, status |-> "ok"]
    /\ caller \in {[script |-> sc, pos |-> 0, before |-> DefaultRecord] :
                      sc \in RoundTripScripts}

ObservingStep ==
    /\ mq = <<>>
    /\ caller.pos < Len(caller.script)
    /\ LET d == caller.script[caller.pos + 1]
       IN /\ Issue(d)
          /\ caller' = [caller EXCEPT
                           !.pos = @ + 1,
                           !.before = IF d = ReserveCall /\ caller.pos + 2 = Len(caller.script)
                                      THEN CurrentOrDefault(warehouses[d.w].inventory, d.p)
                                      ELSE @]

RoundTripNext ==
    \/ ObservingStep
    \/ RunMicrotask /\ UNCHANGED caller

RoundTripSpec == InitRoundTrip /\ [][RoundTripNext]_vars

\* The caller's script has ended with `last`, everything has settled, and the
\* reserve before `last` had succeeded (its call is the one before the
\* `updates` updates that `last` created).
RoundTripDone(last, updates) ==
    /\ caller.pos = Len(caller.script)
    /\ caller.script[caller.pos] = last
    /\ mq = <<>>
    /\ Len(calls) > updates
    /\ calls[Len(calls) - updates].state = "returned"
    /\ \A i \in 0..(updates - 1) : calls[Len(calls) - i].state = "returned"

\* C12: after a successful reserveInventory(A, sku1, 2) followed by
\* releaseInventory(A, sku1, 2), A's reserved is what it was before the
\* reserve and A's quantity is unchanged.
ReserveThenReleaseRestores ==
    RoundTripDone(ReleaseCall, 1) =>
        /\ HasSku("A")
        /\ Record("A", "sku1").reserved = caller.before.reserved
        /\ Record("A", "sku1").quantity = caller.before.quantity

\* The round trip ran on a record that already had a reservation.
ReleaseRoundTripRan ==
    RoundTripDone(ReleaseCall, 1) /\ caller.before.reserved > 0

\* C13: after a successful reserveInventory(A, sku1, 2) followed by
\* commitReservation(A, sku1, 2), A's reserved is what it was before the
\* reserve and A's quantity is lower by exactly 2.
ReserveThenCommitSells ==
    RoundTripDone(CommitCall, 2) =>
        /\ HasSku("A")
        /\ Record("A", "sku1").reserved = caller.before.reserved
        /\ Record("A", "sku1").quantity = caller.before.quantity - 2

\* The commit ran on a record with more stock than the 2 committed.
CommitRoundTripRan ==
    RoundTripDone(CommitCall, 2) /\ caller.before.quantity > 2

----------------------------------------------------------------------------
\* Read operations on a given registry.

\* calculateDistance (lines 328-332) ignores both locations and returns a
\* random integer from 50 upwards; each candidate gets its own draw.
MinDistance == 50
MaxDistance == 51
Distances == MinDistance..MaxDistance

\* estimateShipping lines 337-342
estimateShipping(distance) ==
    IF distance < 100 THEN "1-2 days"
    ELSE IF distance < 500 THEN "2-3 days"
    ELSE IF distance < 1000 THEN "3-5 days"
    ELSE "5-7 days"

\* line 220: the stock test of findOptimalWarehouse
Qualifies(w, p, quantity) ==
    p \in DOMAIN w.inventory
    /\ w.inventory[p].quantity - w.inventory[p].reserved >= quantity

RECURSIVE Candidates(_, _, _, _, _)
\* lines 217-234: the candidates in Map order, each with the distance drawn for it
Candidates(wh, ord, p, quantity, dist) ==
    IF ord = <<>> THEN <<>>
    ELSE LET id == Head(ord)
             rest == Candidates(wh, Tail(ord), p, quantity, dist)
         IN IF Qualifies(wh[id], p, quantity)
            THEN <<[warehouseId |-> id, location |-> wh[id].location,
                    available |-> wh[id].inventory[p].quantity - wh[id].inventory[p].reserved,
                    distance |-> dist[id],
                    estimatedShipping |-> estimateShipping(dist[id])]>> \o rest
            ELSE rest

RECURSIVE InsertFarthestFirst(_, _)
\* Faulty variant of the comparator of line 237: b.distance - a.distance.
InsertFarthestFirst(sorted, c) ==
    IF sorted = <<>> THEN <<c>>
    ELSE IF Head(sorted).distance >= c.distance
         THEN <<Head(sorted)>> \o InsertFarthestFirst(Tail(sorted), c)
         ELSE <<c>> \o sorted

RECURSIVE Insert(_, _)
\* a candidate goes behind every candidate that is not farther (stable order)
Insert(sorted, c) ==
    IF sorted = <<>> THEN <<c>>
    ELSE IF Head(sorted).distance <= c.distance
         THEN <<Head(sorted)>> \o Insert(Tail(sorted), c)
         ELSE <<c>> \o sorted

RECURSIVE sortByDistance(_)
\* line 237: Array.prototype.sort by distance, which is stable
sortByDistance(cs) ==
    IF cs = <<>> THEN <<>>
    ELSE Insert(sortByDistance(SubSeq(cs, 1, Len(cs) - 1)), cs[Len(cs)])

\* null (line 239)
NoCandidate ==
    [warehouseId |-> NoTarget, location |-> NoTarget, available |-> 0, distance |-> 0,
     estimatedShipping |-> "none"]

\* findOptimalWarehouse lines 214-240
findOptimalWarehouse(wh, ord, p, quantity, dist) ==
    LET sorted == sortByDistance(Candidates(wh, ord, p, quantity, dist))
    IN IF sorted = <<>> THEN NoCandidate ELSE sorted[1]

RECURSIVE warehouseStatus(_, _)
\* getSyncStatus lines 298-311
warehouseStatus(wh, ord) ==
    IF ord = <<>> THEN <<>>
    ELSE LET w == wh[Head(ord)]
         IN <<[warehouseId |-> Head(ord), location |-> w.location, status |-> w.status,
               itemCount |-> Cardinality(DOMAIN w.inventory), lastSync |-> w.lastSync,
               lag |-> w.lag, healthy |-> w.lag < 10]>> \o warehouseStatus(wh, Tail(ord))

RECURSIVE SumLag(_)
SumLag(entries) == IF entries = <<>> THEN 0 ELSE Head(entries).lag + SumLag(Tail(entries))

\* getSyncStatus lines 294-323.  avgLag is the quotient totalLag / size, kept
\* as the pair of its terms; with no warehouse it is NaN and NaN < 5 is false.
getSyncStatus(wh, ord, sq, cf) ==
    LET entries == warehouseStatus(wh, ord)
        totalLag == SumLag(entries)
        size == Len(ord)
    IN [warehouses |-> entries,
        totalWarehouses |-> size,
        activeWarehouses |-> Cardinality({i \in DOMAIN entries : entries[i].status = "active"}),
        queueLength |-> Len(sq),
        conflicts |-> Len(cf),
        unresolvedConflicts |-> unresolvedConflicts(cf),
        avgLag |-> <<totalLag, size>>,
        healthy |-> size > 0 /\ totalLag < 5 * size]

----------------------------------------------------------------------------
\* The read operations applied to registries drawn from bounded sets: up to
\* three warehouses registered in any order, each holding no record or one
\* record for sku1.

RECURSIVE Orders(_)
\* the sequences without repetition over a set of ids
Orders(ids) ==
    {<<>>} \cup UNION {{<<id>> \o o : o \in Orders(ids \ {id})} : id \in ids}

StockChoices ==
    {[quantity |-> 2, reserved |-> 0], [quantity |-> 3, reserved |-> 0],
     [quantity |-> 3, reserved |-> 1]}

InventoryChoices ==
    {<<>>} \cup {[p \in {"sku1"} |-> [quantity |-> c.quantity, reserved |-> c.reserved,
                                       version |-> 1, lastUpdated |-> 1]] :
                   c \in StockChoices}

Registries(ids, statuses) ==
    {[id \in ids |-> [id |-> id, location |-> "X", inventory |-> f[id].inventory,
                      lastSync |-> NoSync, status |-> f[id].status, lag |-> 0]] :
        f \in [ids -> [inventory : InventoryChoices, status : statuses]]}

InitRead(statuses) ==
    /\ order \in Orders(WarehouseIds)
    /\ warehouses \in Registries({order[i] : i \in DOMAIN order}, statuses)
    /\ syncQueue = <<>>
    /\ conflicts = <<>>
    /\ events = <<>>
    /\ calls = <<>>
    /\ mq = <<>>
    /\ now = 1
    /\ lastCall = [api |-> "constructor", warehouseId |-> NoTarget, status |-> "ok"]
    /\ caller = NoScript

RequestQuantities == {2, 3}

CandidateIds(p, quantity) ==
    {id \in DOMAIN warehouses : Qualifies(warehouses[id], p, quantity)}

FindOptimal ==
    /\ \E p \in Products, quantity \in RequestQuantities :
         \E dist \in [CandidateIds(p, quantity) -> Distances] :
            lastCall' = [api |-> "findOptimalWarehouse", warehouseId |-> NoTarget,
                         status |-> "ok", productId |-> p, quantity |-> quantity,
                         distances |-> dist,
                         result |-> findOptimalWarehouse(warehouses, order, p, quantity, dist)]
    /\ UNCHANGED <<warehouses, order, syncQueue, conflicts, events, calls, mq, now, caller>>

GetGlobal ==
    /\ \E p \in Products, t \in ClockReads :
          /\ now' = t
          /\ lastCall' = [api |-> "getGlobalInventory", warehouseId |-> NoTarget,
                          status |-> "ok", productId |-> p,
                          result |-> getGlobalInventory(warehouses, order, p, t)]
    /\ UNCHANGED <<warehouses, order, syncQueue, conflicts, events, calls, mq, caller>>

GetStatus ==
    /\ lastCall' = [api |-> "getSyncStatus", warehouseId |-> NoTarget, status |-> "ok",
                    result |-> getSyncStatus(warehouses, order, syncQueue, conflicts)]
    /\ UNCHANGED <<warehouses, order, syncQueue, conflicts, events, calls, mq, now, caller>>

ReadNext == FindOptimal \/ GetGlobal \/ GetStatus

\* every registered warehouse is active, as registerWarehouse leaves it
ReadSpec == InitRead({"active"}) /\ [][ReadNext]_vars

\* status is a plain field of the warehouse object (line 21), tested by
\* propagateUpdate and getSyncStatus (lines 114, 316); here it has either value
StatusSpec == InitRead({"active", "inactive"}) /\ [][ReadNext]_vars

----------------------------------------------------------------------------
\* Properties of the read operations.

FoundOptimal == lastCall.api = "findOptimalWarehouse"

Available(id, p) ==
    warehouses[id].inventory[p].quantity - warehouses[id].inventory[p].reserved

\* the warehouses with a record for p and at least `quantity` available
Stocked(p, quantity) ==
    {id \in DOMAIN warehouses :
        p \in DOMAIN warehouses[id].inventory /\ Available(id, p) >= quantity}

\* C14: findOptimalWarehouse returns null when no warehouse has a record with
\* quantity - reserved >= the requested quantity; otherwise it returns one of
\* the warehouses that have, at the least distance drawn among them.
OptimalIsNearestStocked ==
    FoundOptimal =>
        LET ids == Stocked(lastCall.productId, lastCall.quantity)
            r == lastCall.result
        IN IF ids = {} THEN r = NoCandidate
           ELSE /\ r.warehouseId \in ids
                /\ r.distance = lastCall.distances[r.warehouseId]
                /\ r.available = Available(r.warehouseId, lastCall.productId)
                /\ \A id \in ids : lastCall.distances[id] >= r.distance

\* Three warehouses qualified, and the nearest was not the first registered.
NearestOfThreeFound ==
    /\ FoundOptimal
    /\ Cardinality(Stocked(lastCall.productId, lastCall.quantity)) = 3
    /\ lastCall.result.warehouseId /= order[1]
    /\ lastCall.distances[order[1]] > lastCall.result.distance

IdRank(id) == CHOOSE i \in DOMAIN WarehouseOrder : WarehouseOrder[i] = id

\* C15: among the qualifying warehouses at the least distance the one
\* returned has the greatest available stock, and among those of equal
\* available stock the lexicographically smallest id, whatever the
\* registration order.
TiesBrokenByStockThenId ==
    FoundOptimal =>
        LET p == lastCall.productId
            ids == Stocked(p, lastCall.quantity)
            r == lastCall.result
        IN ids /= {} =>
              \A id \in ids :
                 lastCall.distances[id] = r.distance =>
                    \/ r.available > Available(id, p)
                    \/ r.available = Available(id, p)
                       /\ IdRank(r.warehouseId) <= IdRank(id)

RECURSIVE SumOver(_, _)
SumOver(ids, amount) ==
    IF ids = {} THEN 0
    ELSE LET id == CHOOSE x \in ids : TRUE
         IN amount[id] + SumOver(ids \ {id}, amount)

Holders(p) == {id \in DOMAIN warehouses : p \in DOMAIN warehouses[id].inventory}

\* C17: getGlobalInventory returns the sums of quantity and of reserved over
\* exactly the warehouses holding a record for the product, totalAvailable =
\* totalQuantity - totalReserved, and one entry per such warehouse with its
\* quantity, reserved and available = quantity - reserved; a warehouse
\* without a record has no entry.
GlobalIsSumOverHolders ==
    lastCall.api = "getGlobalInventory" =>
        LET p == lastCall.productId
            r == lastCall.result
            hs == Holders(p)
        IN /\ r.totalQuantity = SumOver(hs, [id \in hs |-> warehouses[id].inventory[p].quantity])
           /\ r.totalReserved = SumOver(hs, [id \in hs |-> warehouses[id].inventory[p].reserved])
           /\ r.totalAvailable = r.totalQuantity - r.totalReserved
           /\ Len(r.warehouses) = Cardinality(hs)
           /\ \A id \in hs :
                 \E i \in DOMAIN r.warehouses :
                    /\ r.warehouses[i].warehouseId = id
                    /\ r.warehouses[i].quantity = warehouses[id].inventory[p].quantity
                    /\ r.warehouses[i].reserved = warehouses[id].inventory[p].reserved
                    /\ r.warehouses[i].available = Available(id, p)

\* The aggregate was read with two warehouses holding a record, one of them
\* with a reservation, and a third holding none.
GlobalReadWithNonHolder ==
    /\ lastCall.api = "getGlobalInventory"
    /\ Cardinality(Holders(lastCall.productId)) = 2
    /\ Cardinality(DOMAIN warehouses) = 3
    /\ lastCall.result.totalReserved > 0

ReadApis == {"getGlobalInventory", "findOptimalWarehouse", "getSyncStatus"}

\* C18: two calls of getGlobalInventory for the same product with no
\* mutation in between return identical results, and the three read
\* operations leave the warehouses, their records, the sync queue and the
\* conflict log unchanged.
ReadsRepeatAndChangeNothing ==
    [][/\ lastCall'.api \in ReadApis =>
             UNCHANGED <<warehouses, order, syncQueue, conflicts>>
       /\ (/\ lastCall.api = "getGlobalInventory"
           /\ lastCall'.api = "getGlobalInventory"
           /\ lastCall'.productId = lastCall.productId) =>
             lastCall'.result = lastCall.result]_vars

----------------------------------------------------------------------------
\* Deliveries.

\* The microtask step on which handleConflict has ended, by return or by throw.
ConflictHandled ==
    /\ mq /= <<>>
    /\ lastCall'.api = "microtask"
    /\ Head(mq).kind = "afterHandleConflict"

\* C19: when an update reaches a target whose record has version >= the
\* update's, the target's record becomes the result of applying the update
\* exactly when update.timestamp > record.lastUpdated, and is otherwise left
\* as it was; the conflict ends as accepted_incoming in the first case and as
\* kept_current in the second, equal timestamps included.
ConflictFollowsLastWrite ==
    [][/\ Delivering =>
            LET u == calls[Head(mq).call].update
                p == u.productId
            IN \A t \in DOMAIN warehouses :
                  LET inv == warehouses[t].inventory
                  IN (t /= u.warehouseId /\ p \in DOMAIN inv /\ inv[p].version >= u.version) =>
                        IF u.timestamp > inv[p].lastUpdated
                        THEN warehouses'[t].inventory[p] = AppliedRecord(inv[p], u)
                        ELSE warehouses'[t].inventory = inv
       /\ ConflictHandled =>
            LET k == Head(mq).conflict
            IN conflicts'[k].resolution =
                  IF conflicts[k].incomingUpdate.timestamp > conflicts[k].currentState.lastUpdated
                  THEN "accepted_incoming" ELSE "kept_current"]_vars

\* C20: the delivery of an update to a non-origin warehouse records a conflict
\* exactly when that warehouse's record version (0 without a record) is >=
\* the update's version; otherwise the update goes through the update
\* applier (applied, or rejected as an unsatisfiable reserve) and no conflict
\* is recorded.  Conflicts are recorded by deliveries only, at most one per
\* update and warehouse, never at the update's origin.
ConflictIffVersionNotBehind ==
    [][/\ Delivering =>
            LET u == calls[Head(mq).call].update
                p == u.productId
            IN \A t \in DOMAIN warehouses :
                  LET inv == warehouses[t].inventory
                      cur == IF p \in DOMAIN inv THEN inv[p] ELSE DefaultRecord
                      collides == t /= u.warehouseId /\ cur.version >= u.version
                  IN /\ Cardinality(NewConflictsAt(t)) = IF collides THEN 1 ELSE 0
                     /\ \A k \in NewConflictsAt(t) :
                           conflicts'[k].incomingUpdate = u /\ conflicts'[k].productId = p
                     /\ (t /= u.warehouseId /\ ~collides) =>
                           IF u.operation = "reserve" /\ cur.quantity < u.quantity
                           THEN warehouses'[t].inventory = inv
                           ELSE warehouses'[t].inventory[p] = AppliedRecord(cur, u)
       /\ ~Delivering => Len(conflicts') = Len(conflicts)
       /\ \A k \in DOMAIN conflicts' :
             /\ conflicts'[k].incomingUpdate.warehouseId /= conflicts'[k].warehouseId
             /\ \A j \in DOMAIN conflicts' :
                   (/\ conflicts'[j].incomingUpdate.id = conflicts'[k].incomingUpdate.id
                    /\ conflicts'[j].warehouseId = conflicts'[k].warehouseId) => j = k]_vars

\* One update met a conflict at one target and was applied without conflict
\* at another.
ConflictBesidePlainDelivery ==
    \E c \in DOMAIN calls :
       \E t1 \in DOMAIN calls[c].sync, t2 \in DOMAIN calls[c].sync :
          /\ calls[c].sync[t1] \in {"kept", "accepted"}
          /\ calls[c].sync[t2] = "applied"
          /\ \E k \in DOMAIN conflicts :
                conflicts[k].warehouseId = t1 /\ conflicts[k].incomingUpdate.id = c

----------------------------------------------------------------------------
\* Propagation and warehouse status.  No method of the service changes a
\* warehouse's status: the owner of the service writes the field of the
\* record that registerWarehouse created.

setInactive(id) ==
    /\ id \in DOMAIN warehouses
    /\ warehouses[id].status = "active"
    /\ warehouses' = [warehouses EXCEPT ![id].status = "inactive"]
    /\ lastCall' = [api |-> "setInactive", warehouseId |-> id, status |-> "ok"]
    /\ UNCHANGED <<order, syncQueue, conflicts, events, calls, mq, now, caller>>

StatusCalls ==
    {Call("updateInventory", "A", "-", "sku1", 2, "set"),
     Call("updateInventory", "B", "-", "sku1", 1, "add"),
     Call("updateInventory", "C", "-", "sku1", 1, "subtract"),
     Call("reserveInventory", "A", "-", "sku1", 2, "reserve")}

StatusLength == 3

StatusScripts ==
    {<<Call("registerWarehouse", "A", "X", NoTarget, 0, "none"),
       Call("registerWarehouse", "B", "X", NoTarget, 0, "none"),
       Call("registerWarehouse", "C", "X", NoTarget, 0, "none")>> \o sc :
       sc \in Scripts(StatusCalls, StatusLength)}

PropagationNext ==
    \/ ScriptStep
    \/ \E id \in WarehouseIds : setInactive(id)
    \/ RunMicrotask /\ UNCHANGED caller

PropagationSpec == InitScript(StatusScripts) /\ [][PropagationNext]_vars

\* The warehouses propagateUpdate has to deliver update u to.
ActiveOthers(u) ==
    {t \in DOMAIN warehouses :
        t /= u.warehouseId /\ warehouses[t].status = "active"}

\* The deliveries of call c to warehouse t that wait in the microtask queue.
DeliveriesTo(q, c, t) ==
    Cardinality({i \in DOMAIN q : q[i].call = c /\ q[i].target = t})

\* C21: propagating an update delivers it exactly once to every warehouse
\* that is registered, active and not the origin when the propagation runs;
\* the origin is not applied to again, an inactive warehouse keeps its
\* records, lag and lastSync, and what follows a delivery (lastSync, lag)
\* touches only a warehouse the update was delivered to.
DeliveredOnceToActiveOthers ==
    [][/\ Delivering =>
            LET c == Head(mq).call
                u == calls[c].update
            IN  /\ DOMAIN calls'[c].sync = ActiveOthers(u)
                /\ calls'[c].remaining = Cardinality(ActiveOthers(u))
                /\ \A t \in DOMAIN warehouses :
                      DeliveriesTo(mq', c, t) =
                          IF t \in ActiveOthers(u) THEN 1 ELSE 0
                /\ warehouses'[u.warehouseId] = warehouses[u.warehouseId]
                /\ \A t \in DOMAIN warehouses :
                      warehouses[t].status = "inactive"
                          => warehouses'[t] = warehouses[t]
       /\ (/\ mq /= <<>>
           /\ lastCall'.api = "microtask"
           /\ Head(mq).target /= NoTarget) =>
            /\ Head(mq).target \in DOMAIN calls[Head(mq).call].sync
            /\ \A w \in DOMAIN warehouses :
                  w /= Head(mq).target => warehouses'[w] = warehouses[w]
      ]_vars

\* An update of A was delivered to C alone, B being registered and inactive.
InactiveWarehouseSkipped ==
    /\ DOMAIN warehouses = {"A", "B", "C"}
    /\ warehouses["B"].status = "inactive"
    /\ "sku1" \notin DOMAIN warehouses["B"].inventory
    /\ "sku1" \in DOMAIN warehouses["C"].inventory
    /\ warehouses["C"].inventory["sku1"].quantity = 2
    /\ warehouses["C"].lastSync /= NoSync

----------------------------------------------------------------------------
\* The arithmetic of applyUpdate at the origin, on records that earlier
\* calls left behind.

ArithmeticCalls ==
    {Call("updateInventory", "A", "-", "sku1", -1, "set"),
     Call("updateInventory", "A", "-", "sku1", 3, "set"),
     Call("updateInventory", "A", "-", "sku1", 2, "add"),
     Call("updateInventory", "A", "-", "sku1", 2, "subtract"),
     Call("reserveInventory", "A", "-", "sku1", 2, "reserve"),
     Call("releaseInventory", "A", "-", "sku1", 1, "release"),
     Call("releaseInventory", "A", "-", "sku1", 3, "release")}

ArithmeticLength == 3

ArithmeticScripts ==
    {<<Call("registerWarehouse", "A", "X", NoTarget, 0, "none"),
       Call("registerWarehouse", "B", "X", NoTarget, 0, "none")>> \o sc :
       sc \in Scripts(ArithmeticCalls, ArithmeticLength)}

ArithmeticSpec == InitScript(ArithmeticScripts) /\ [][ScriptNext]_vars

\* The step creates an update: updateInventory runs up to its first await.
UpdateCreated == Len(syncQueue') = Len(syncQueue) + 1

\* The record of (w, p) before the step, or the default of lines 67-71.
RecordBefore(w, p) ==
    IF p \in DOMAIN warehouses[w].inventory
    THEN warehouses[w].inventory[p]
    ELSE [quantity |-> 0, reserved |-> 0, version |-> 0]

\* C22: applying an update with value v to a record (a missing one counts
\* as quantity 0, reserved 0): set makes the quantity v, not clamped; add
\* makes it quantity + v; subtract makes it max(0, quantity - v); release
\* makes reserved max(0, reserved - v) and keeps the quantity; set, add and
\* subtract keep reserved; none of the four fails.
ApplyArithmetic ==
    [][UpdateCreated =>
          LET c == Len(syncQueue')
              u == calls'[c].update
              old == RecordBefore(u.warehouseId, u.productId)
              new == warehouses'[u.warehouseId].inventory[u.productId]
              v == u.quantity
          IN  u.operation \in {"set", "add", "subtract", "release"} =>
                /\ calls'[c].localOk
                /\ u.operation = "set" => new.quantity = v
                /\ u.operation = "add" => new.quantity = old.quantity + v
                /\ u.operation = "subtract" =>
                      new.quantity = IF old.quantity - v > 0 THEN old.quantity - v ELSE 0
                /\ u.operation = "release" =>
                      /\ new.quantity = old.quantity
                      /\ new.reserved = IF old.reserved - v > 0 THEN old.reserved - v ELSE 0
                /\ u.operation /= "release" => new.reserved = old.reserved
      ]_vars

\* A set to -1 was applied as it is, after a release that had reached zero
\* and a subtract that had been clamped.
NegativeSetApplied ==
    /\ caller.pos = 5
    /\ caller.script[3].op = "release"
    /\ caller.script[4].op = "subtract"
    /\ caller.script[5].op = "set"
    /\ mq /= <<>>
    /\ Head(mq).kind = "afterLocalApply"
    /\ Head(mq).ok
    /\ warehouses["A"].inventory["sku1"].quantity = -1

\* C23: every updateInventory that succeeds on (w, p) creates an update whose
\* version is the version of w's record for p when the call is made (0 when
\* there is none) plus one, and applying it at the origin sets the record's
\* version to the update's version and its lastUpdated to the update's
\* timestamp.
VersionIsRecordVersionPlusOne ==
    [][UpdateCreated =>
          LET c == Len(syncQueue')
              u == calls'[c].update
              old == RecordBefore(u.warehouseId, u.productId)
              new == warehouses'[u.warehouseId].inventory[u.productId]
          IN  calls'[c].localOk =>
                /\ u.version = old.version + 1
                /\ new.version = u.version
                /\ new.lastUpdated = u.timestamp
      ]_vars

\* The second update of a record has just been applied at its origin.
SecondVersionApplied ==
    /\ mq /= <<>>
    /\ LET task == mq[Len(mq)]
       IN  /\ task.kind = "afterLocalApply"
           /\ task.ok
           /\ LET u == calls[task.call].update
              IN  /\ u.version = 2
                  /\ u.timestamp = 2
                  /\ Record(u.warehouseId, u.productId).version = 2
                  /\ Record(u.warehouseId, u.productId).lastUpdated = 2

----------------------------------------------------------------------------
\* Two calls of updateInventory for the same warehouse and product, the
\* second made while the first is suspended at any of its awaits.

PairCalls ==
    {Call("updateInventory", "A", "-", "sku1", 1, "add"),
     Call("updateInventory", "A", "-", "sku1", 2, "set"),
     Call("updateInventory", "A", "-", "sku1", 1, "subtract")}

PairSetupLength == 2

OverlapScripts ==
    {<<Call("registerWarehouse", "A", "X", NoTarget, 0, "none"),
       Call("registerWarehouse", "B", "X", NoTarget, 0, "none")>>
       \o setup \o <<first, second>> :
       setup \in Scripts(SetupCalls, PairSetupLength),
       first \in PairCalls, second \in PairCalls}

InitOverlap ==
    /\ warehouses = <<>>
    /\ order = <<>>
    /\ syncQueue = <<>>
    /\ conflicts = <<>>
    /\ events = <<>>
    /\ calls = <<>>
    /\ mq = <<>>
    /\ now = 1
    /\ lastCall = [api |-> "constructor", warehouseId |-> NoTarget, status |-> "ok"]
    /\ caller \in {[script |-> sc, pos |-> 0, before |-> DefaultRecord] :
                      sc \in OverlapScripts}

\* The caller awaits every call but the one before the last: the last call
\* is made at any moment after it.  `before` is the record when the first
\* call of the pair is made.
OverlapStep ==
    /\ caller.pos < Len(caller.script)
    /\ mq = <<>> \/ caller.pos + 1 = Len(caller.script)
    /\ LET d == caller.script[caller.pos + 1]
       IN /\ Issue(d)
          /\ caller' = [caller EXCEPT
                           !.pos = @ + 1,
                           !.before = IF caller.pos + 2 = Len(caller.script)
                                      THEN CurrentOrDefault(warehouses[d.w].inventory, d.p)
                                      ELSE @]

OverlapNext ==
    \/ OverlapStep
    \/ RunMicrotask /\ UNCHANGED caller

OverlapSpec == InitOverlap /\ [][OverlapNext]_vars

\* The quantity a call of the pair is meant to leave, from quantity q.
Effect(d, q) ==
    IF d.op = "set" THEN d.q
    ELSE IF d.op = "add" THEN q + d.q
    ELSE IF q - d.q > 0 THEN q - d.q ELSE 0

\* C24: two updateInventory calls for the same warehouse and product that
\* overlap at any await get distinct versions (the record's version plus 1
\* and plus 2) and both take effect at the origin, the second on the result
\* of the first: no update is lost, two add(1) raise the quantity by 2.
OverlappingUpdatesBothApplied ==
    LET n == Len(caller.script)
    IN  /\ caller.pos = n - 1 =>
              /\ HasSku("A")
              /\ Record("A", "sku1").version = caller.before.version + 1
              /\ Record("A", "sku1").quantity =
                    Effect(caller.script[n - 1], caller.before.quantity)
        /\ caller.pos = n =>
              /\ HasSku("A")
              /\ Record("A", "sku1").version = caller.before.version + 2
              /\ Record("A", "sku1").quantity =
                    Effect(caller.script[n], Effect(caller.script[n - 1], caller.before.quantity))

\* The second add(1) has just been made while the first add(1), already
\* delivered to B, was still running: the quantity at A is up by 2.
OverlappingAddsApplied ==
    LET n == Len(caller.script)
    IN  /\ caller.pos = n
        /\ caller.script[n].op = "add"
        /\ caller.script[n - 1].op = "add"
        /\ lastCall.api = "updateInventory"
        /\ InFlight = 2
        /\ calls[Len(calls) - 1].sync /= <<>>
        /\ caller.before.quantity > 0
        /\ Record("A", "sku1").quantity = caller.before.quantity + 2

----------------------------------------------------------------------------
\* A warehouse that joins after the others have exchanged updates.  The
\* caller keeps a log of the updates every warehouse has applied on delivery:
\* <<target, origin, version>>.

JoinCalls ==
    {Call("updateInventory", "B", "-", "sku1", 2, "set"),
     Call("updateInventory", "A", "-", "sku1", 1, "add"),
     Call("updateInventory", "A", "-", "sku1", 2, "set")}

JoinLength == 2

LateJoinScripts ==
    {<<Call("registerWarehouse", "A", "X", NoTarget, 0, "none"),
       Call("registerWarehouse", "C", "X", NoTarget, 0, "none")>>
       \o early
       \o <<Call("registerWarehouse", "B", "X", NoTarget, 0, "none")>>
       \o late :
       early \in [1..EarlyLength -> EarlyCalls], late \in [1..JoinLength -> JoinCalls]}

InitLateJoin ==
    /\ warehouses = <<>>
    /\ order = <<>>
    /\ syncQueue = <<>>
    /\ conflicts = <<>>
    /\ events = <<>>
    /\ calls = <<>>
    /\ mq = <<>>
    /\ now = 1
    /\ lastCall = [api |-> "constructor", warehouseId |-> NoTarget, status |-> "ok"]
    /\ caller \in {[script |-> sc, pos |-> 0, applied |-> {}] : sc \in LateJoinScripts}

\* The targets at which the delivering step applies the update of call c.
AppliedOnDelivery(c) ==
    {t \in DOMAIN calls'[c].sync : calls'[c].sync[t] \in {"applied", "accepted"}}

LoggedMicrotask ==
    /\ RunMicrotask
    /\ caller' = [caller EXCEPT
                     !.applied =
                        IF Delivering
                        THEN @ \cup {<<t, calls[Head(mq).call].update.warehouseId,
                                          calls[Head(mq).call].update.version>> :
                                         t \in AppliedOnDelivery(Head(mq).call)}
                        ELSE @]

LateJoinNext ==
    \/ ScriptStep
    \/ LoggedMicrotask

LateJoinSpec == InitLateJoin /\ [][LateJoinNext]_vars

\* C25: at every target the updates of one origin for one product are
\* applied in version order: a target that has applied the origin's update
\* with version v never afterwards applies an update of that origin with a
\* lower version.
AppliedInVersionOrder ==
    [][Delivering =>
          LET c == Head(mq).call
              u == calls[c].update
          IN  \A t \in AppliedOnDelivery(c) :
                 \A e \in caller.applied :
                    (e[1] = t /\ e[2] = u.warehouseId) => e[3] <= u.version
      ]_vars

----------------------------------------------------------------------------
\* Events.

\* The inventory:updated events of call c.
UpdatedEvents(ev, c) ==
    {i \in DOMAIN ev : ev[i].type = "inventory:updated" /\ ev[i].ref = c}

\* The inventory:conflict events, in ev, of the conflicts update c has caused.
ConflictEvents(ev, cf, c) ==
    {i \in DOMAIN ev : ev[i].type = "inventory:conflict"
                          /\ cf[ev[i].ref].incomingUpdate.id = c}

\* C26: a call of updateInventory that succeeds emits exactly one
\* inventory:updated event for its update, and a call that fails emits none;
\* the event is emitted when the update has been applied at the origin and
\* nothing of its propagation is left to run (every target has applied it,
\* handled its conflict or counted its failure), so no inventory:conflict
\* event of the update comes after it.
UpdatedEmittedOnceAfterPropagation ==
    [][/\ \A c \in DOMAIN calls' :
             Cardinality(UpdatedEvents(events', c)) =
                 IF calls'[c].state = "returned" THEN 1 ELSE 0
       /\ \A c \in DOMAIN calls :
             UpdatedEvents(events', c) /= UpdatedEvents(events, c) =>
                /\ calls[c].localOk
                /\ calls[c].state = "propagating"
                /\ calls[c].remaining = 0
                /\ \A i \in DOMAIN mq : i > 1 => mq[i].call /= c
       /\ \A c \in DOMAIN calls :
             ConflictEvents(events', conflicts', c) /= ConflictEvents(events, conflicts, c) =>
                UpdatedEvents(events, c) = {}
      ]_vars

\* A call has returned whose update had caused a conflict: the conflict's
\* event is in the list before the call's inventory:updated event.
UpdatedAfterConflictEvent ==
    \E i \in DOMAIN events, j \in DOMAIN events :
       /\ i < j
       /\ events[i].type = "inventory:conflict"
       /\ events[j].type = "inventory:updated"
       /\ conflicts[events[i].ref].incomingUpdate.id = events[j].ref
       /\ conflicts[events[i].ref].resolution = "accepted_incoming"
       /\ calls[events[j].ref].state = "returned"

----------------------------------------------------------------------------
\* One caller that registers every warehouse first and then awaits each of
\* its calls before it makes the next.

SequentialCalls ==
    {Call("updateInventory", "A", "-", "sku1", 2, "set"),
     Call("updateInventory", "B", "-", "sku1", 1, "add"),
     Call("updateInventory", "C", "-", "sku1", 1, "subtract"),
     Call("reserveInventory", "B", "-", "sku1", 2, "reserve"),
     Call("releaseInventory", "A", "-", "sku1", 2, "release"),
     Call("commitReservation", "C", "-", "sku1", 2, "commit")}

SequentialLength == 3

SequentialScripts ==
    {<<Call("registerWarehouse", "A", "X", NoTarget, 0, "none"),
       Call("registerWarehouse", "B", "X", NoTarget, 0, "none"),
       Call("registerWarehouse", "C", "X", NoTarget, 0, "none")>> \o sc :
       sc \in Scripts(SequentialCalls, SequentialLength)}

SequentialSpec == InitScript(SequentialScripts) /\ [][ScriptNext]_vars

\* C27: with every warehouse registered before the first update, all of
\* them active, and every call awaited before the next is made, after each
\* call all warehouses hold the same records (quantity, reserved, version,
\* lastUpdated) for every product, no conflict is ever recorded and every
\* lag stays 0.
SequentialCallsKeepReplicasEqual ==
    /\ conflicts = <<>>
    /\ \A w \in DOMAIN warehouses : warehouses[w].lag = 0
    /\ mq = <<>> =>
          \A w1 \in DOMAIN warehouses, w2 \in DOMAIN warehouses :
             warehouses[w1].inventory = warehouses[w2].inventory

\* Three calls at three different warehouses have returned, the second a
\* reserve, and the three replicas are at version 3 with the reservation.
ThreeOriginsInTurn ==
    /\ Len(caller.script) = 6
    /\ caller.pos = 6
    /\ mq = <<>>
    /\ Len(calls) = 3
    /\ \A c \in DOMAIN calls : calls[c].state = "returned"
    /\ caller.script[4].w = "A"
    /\ caller.script[5].w = "B"
    /\ caller.script[6].w = "C"
    /\ \A w \in {"A", "B", "C"} :
          /\ HasSku(w)
          /\ Record(w, "sku1").version = 3
          /\ Record(w, "sku1").reserved = 2

----------------------------------------------------------------------------
\* Two 'set' calls for one product at two warehouses, the second made right
\* after the first: both are applied locally before either is propagated.

SiteSetupCalls ==
    {Call("updateInventory", "A", "-", "sku1", 2, "set"),
     Call("updateInventory", "B", "-", "sku1", 1, "add")}

SiteSetupLength == 2

FirstSets ==
    {Call("updateInventory", "A", "-", "sku1", 1, "set"),
     Call("updateInventory", "A", "-", "sku1", 2, "set")}

SecondSets ==
    {Call("updateInventory", "B", "-", "sku1", 2, "set"),
     Call("updateInventory", "B", "-", "sku1", 3, "set")}

TwoSiteScripts ==
    {<<Call("registerWarehouse", "A", "X", NoTarget, 0, "none"),
       Call("registerWarehouse", "B", "X", NoTarget, 0, "none")>>
       \o setup \o <<first, second>> :
       setup \in Scripts(SiteSetupCalls, SiteSetupLength),
       first \in FirstSets, second \in SecondSets}

\* The caller awaits every call but the one before the last; it makes the
\* last call in the same turn, before any continuation has run.
TwoSiteStep ==
    /\ caller.pos < Len(caller.script)
    /\ IF caller.pos + 1 = Len(caller.script)
       THEN mq /= <<>> /\ AtTaskPoint
       ELSE mq = <<>>
    /\ Issue(caller.script[caller.pos + 1])
    /\ caller' = [caller EXCEPT !.pos = @ + 1]

TwoSiteNext ==
    \/ TwoSiteStep
    \/ RunMicrotask /\ UNCHANGED caller

TwoSiteSpec == InitScript(TwoSiteScripts) /\ [][TwoSiteNext]_vars

\* C28: two 'set' calls for the same product made at two different active
\* warehouses without waiting for the first to finish: once both calls have
\* returned, the two warehouses hold the same quantity for the product,
\* also when the two updates carry the same timestamp.
ConcurrentSetsConverge ==
    (/\ caller.pos = Len(caller.script)
     /\ mq = <<>>
     /\ calls[Len(calls)].state = "returned"
     /\ calls[Len(calls) - 1].state = "returned")
        => Record("A", "sku1").quantity = Record("B", "sku1").quantity

----------------------------------------------------------------------------
\* C29: the currentState of a conflict is the target's record as it was when
\* the conflict was detected: it is that record when the conflict is
\* recorded, and no later step changes it, neither the resolution of the
\* conflict nor a later reserve or release at that warehouse.
CurrentStateIsSnapshot ==
    [][/\ \A k \in DOMAIN conflicts' :
             k \notin DOMAIN conflicts =>
                conflicts'[k].currentState =
                    warehouses[conflicts'[k].warehouseId].inventory[conflicts'[k].productId]
       /\ \A k \in DOMAIN conflicts :
             conflicts'[k].currentState = conflicts[k].currentState
      ]_vars

----------------------------------------------------------------------------
\* C30: the sync queue is append-only and holds, in the order of their
\* creation, exactly the updates that were applied at their origin: a call
\* of updateInventory that fails adds no entry, and when nothing is running
\* the queue is as long as the number of calls that have succeeded.
QueueHoldsAppliedUpdates ==
    [][/\ \/ syncQueue' = syncQueue
          \/ syncQueue' = Append(syncQueue, Len(calls'))
       /\ \A i \in DOMAIN syncQueue' : calls'[syncQueue'[i]].localOk
       /\ mq' = <<>> =>
             Len(syncQueue') =
                Cardinality({c \in DOMAIN calls' : calls'[c].state = "returned"})
      ]_vars

====
